---- MODULE Spec2Model ----
(***************************************************************************)
(* Model of the telemetry worker of evabot-backend                         *)
(* (cmd/telem_worker/main.go): the JetStream durable consumer, its message *)
(* handler, the ts_ns unit heuristic and the InfluxDB write with its error *)
(* classification.                                                         *)
(*                                                                         *)
(* Go's int64 and time.Time values do not fit TLC's 32-bit integers, so    *)
(* whole numbers are kept as ten base-1000 limbs, least significant first  *)
(* (values below 10^30).  A limb literal is written the way the number is  *)
(* read, in groups of three decimal digits: D(<<100,0,0,0,0,0>>) is 1e17.  *)
(***************************************************************************)
EXTENDS Integers, Sequences, FiniteSets, TLC

----------------------------------------------------------------------------
(* Whole numbers as base-1000 limbs *)

Limbs == 1..10

\* the ten limbs as a tuple
Tuple(f) == <<f[1], f[2], f[3], f[4], f[5], f[6], f[7], f[8], f[9], f[10]>>

D(groups) ==
    Tuple([i \in Limbs |-> IF i <= Len(groups) THEN groups[Len(groups) + 1 - i] ELSE 0])

Zero == D(<<>>)

Lt(x, y) == \E i \in Limbs : x[i] < y[i] /\ \A j \in Limbs : j > i => x[j] = y[j]

Le(x, y) == x = y \/ Lt(x, y)

RECURSIVE Carry(_, _, _)
Carry(x, y, i) ==
    IF i = 0 THEN 0 ELSE (x[i] + y[i] + Carry(x, y, i - 1)) \div 1000

Add(x, y) == Tuple([i \in Limbs |-> (x[i] + y[i] + Carry(x, y, i - 1)) % 1000])

RECURSIVE Borrow(_, _, _)
Borrow(x, y, i) ==
    IF i = 0 THEN 0
    ELSE IF x[i] - y[i] - Borrow(x, y, i - 1) < 0 THEN 1 ELSE 0

\* x - y for y <= x
Sub(x, y) == Tuple([i \in Limbs |-> (x[i] - y[i] - Borrow(x, y, i - 1)) % 1000])

\* x * 1000^k
Shl(x, k) == Tuple([i \in Limbs |-> IF i <= k THEN 0 ELSE x[i - k]])

RECURSIVE Times(_, _)
Times(x, q) == IF q = 0 THEN Zero ELSE Add(x, Times(x, q - 1))

\* Signed whole numbers: a sign and a magnitude; zero is never negative.
Pos(x) == [neg |-> FALSE, mag |-> x]
Neg(x) == [neg |-> x # Zero, mag |-> x]

SLt(a, b) ==
    IF a.neg /\ b.neg THEN Lt(b.mag, a.mag)
    ELSE IF a.neg THEN TRUE
    ELSE IF b.neg THEN FALSE
    ELSE Lt(a.mag, b.mag)

\* a + x and a - x for a signed a and a magnitude x
SAdd(a, x) ==
    IF ~a.neg THEN Pos(Add(a.mag, x))
    ELSE IF Le(a.mag, x) THEN Pos(Sub(x, a.mag))
    ELSE Neg(Sub(a.mag, x))

SSub(a, x) ==
    IF a.neg THEN Neg(Add(a.mag, x))
    ELSE IF Le(x, a.mag) THEN Pos(Sub(a.mag, x))
    ELSE Neg(Sub(x, a.mag))

----------------------------------------------------------------------------
(* Go int64 *)

Two63 == D(<<9, 223, 372, 36, 854, 775, 808>>)
Two64 == D(<<18, 446, 744, 73, 709, 551, 616>>)
MaxInt64 == D(<<9, 223, 372, 36, 854, 775, 807>>)

\* The int64 a Go multiplication leaves for the exact non-negative product x:
\* the low 64 bits, read as two's complement.
RECURSIVE Mod64(_)
Mod64(x) == IF Lt(x, Two64) THEN x ELSE Mod64(Sub(x, Two64))

WrapInt64(x) ==
    LET r == Mod64(x)
    IN  IF Lt(r, Two63) THEN Pos(r) ELSE Neg(Sub(Two64, r))

----------------------------------------------------------------------------
(* time.Time: signed nanoseconds since the Unix epoch, exact (time.Time holds *)
(* seconds and nanoseconds apart, so time.Unix(sec, 0) never wraps)           *)

\* time.Unix(sec, nsec) for the two shapes unixAnyToTime calls it with
UnixSec(sec) == [neg |-> sec.neg, mag |-> Shl(sec.mag, 3)]
UnixNsec(nsec) == nsec

Before(t, u) == SLt(t, u)
After(t, u) == SLt(u, t)

E17 == D(<<100, 0, 0, 0, 0, 0>>)
E14 == D(<<100, 0, 0, 0, 0>>)
E11 == D(<<100, 0, 0, 0>>)

\* ts >= c for an int64 ts and a positive constant c
GeConst(ts, c) == ~ts.neg /\ Le(c, ts.mag)

MulInt64Exact(ts, k) == Pos(Shl(ts.mag, k))

\* ts * 1000^k in int64 arithmetic (ts >= 1e11 here, so ts is positive)
MulInt64(ts, k) == WrapInt64(Shl(ts.mag, k))

unixAnyToTime(ts) ==
    IF GeConst(ts, E17) THEN UnixNsec(ts)
    ELSE IF GeConst(ts, E14) THEN UnixNsec(MulInt64(ts, 1))
    ELSE IF GeConst(ts, E11) THEN UnixNsec(MulInt64(ts, 2))
    ELSE UnixSec(ts)

\* The worker's clock.  time.Now() is Now0 plus a whole number of TickNs.
Now0 == Pos(D(<<1, 793, 577, 600, 0, 0, 0>>))      \* 2026-11-02T00:00:00Z
TickNs == D(<<30, 0, 0, 0>>)                      \* 30 s
TimeNow(k) == SAdd(Now0, Times(TickNs, k))

\* now.AddDate(-10, 0, 0): the same date ten years earlier, 3652 days
\* before any instant of 2026-11-02 (UTC)
TenYears == D(<<315, 532, 800, 0, 0, 0>>)
AddDateMinus10(t) == SSub(t, TenYears)

\* now.Add(24 * time.Hour)
Day == D(<<86, 400, 0, 0, 0>>)
Add24h(t) == SAdd(t, Day)

BadTimestampNoAfter(ts, now) == Before(ts, AddDateMinus10(now))

BadTimestamp(ts, now) ==
    Before(ts, AddDateMinus10(now)) \/ After(ts, Add24h(now))

----------------------------------------------------------------------------
(* Decoded JSON (encoding/json with UseNumber): every value is a record     *)

Nil == [t |-> "nil"]
JInt(neg, groups) == [t |-> "number", int |-> TRUE, neg |-> neg, mag |-> D(groups)]
JReal(text, finite) == [t |-> "number", int |-> FALSE, text |-> text, finite |-> finite]
JBool(b) == [t |-> "bool", b |-> b]
JStr(s) == [t |-> "string", s |-> s]
JObj(f) == [t |-> "object", members |-> f]
JNull == [t |-> "null"]
JArr == [t |-> "array"]

NilMap == [k \in {} |-> Nil]

\* m[k] of a Go map: the zero value (nil) for an absent key or a nil map
Lookup(m, k) == IF k \in DOMAIN m THEN m[k] ELSE Nil

\* json.Number.Int64(): strconv.ParseInt of the literal, base 10, 64 bits
FitsInt64(v) == IF v.neg THEN Le(v.mag, Two63) ELSE Le(v.mag, MaxInt64)

\* With dec.UseNumber() a JSON number reaches asInt64 as a json.Number; the
\* float64 and int64 cases never match a decoded value.
asInt64(v) ==
    IF v.t = "number" /\ v.int /\ FitsInt64(v)
    THEN [ok |-> TRUE, v |-> [neg |-> v.neg /\ v.mag # Zero, mag |-> v.mag]]
    ELSE [ok |-> FALSE, v |-> Pos(Zero)]

IsPositiveOrZero(v) == ~v.neg

IsPositive(v) == ~v.neg /\ v.mag # Zero

----------------------------------------------------------------------------
(* extractFields *)

ReservedWithoutTraceId == {"data", "topic", "ts_ns"}

Reserved == {"data", "topic", "trace_id", "ts_ns"}

\* json.Number.Float64(): an error only for a literal outside float64's range
Float64Ok(v) == v.int \/ v.finite

\* the cases of the type switch that store a field
IsScalar(v) == v.t = "bool" \/ (v.t = "number" /\ Float64Ok(v))

FieldValue(v) == IF v.t = "bool" THEN v ELSE [t |-> "float64", of |-> v]

extractFieldsDataWins(m) ==
    LET tv == Lookup(m, "topic")
        dv == Lookup(m, "data")
        dmap == IF dv.t = "object" THEN dv.members ELSE NilMap
        dkeys == {k \in DOMAIN dmap : IsScalar(dmap[k])}
        tkeys == {k \in DOMAIN m \ Reserved : IsScalar(m[k])}
    IN  [fields |-> [k \in dkeys \cup tkeys |->
                        IF k \in dkeys THEN FieldValue(dmap[k]) ELSE FieldValue(m[k])],
         topic |-> IF tv.t = "string" THEN tv.s ELSE ""]

extractFields(m) ==
    LET tv == Lookup(m, "topic")
        dv == Lookup(m, "data")
        dmap == IF dv.t = "object" THEN dv.members ELSE NilMap
        dkeys == {k \in DOMAIN dmap : IsScalar(dmap[k])}
        tkeys == {k \in DOMAIN m \ Reserved : IsScalar(m[k])}
    IN  [fields |-> [k \in dkeys \cup tkeys |->
                        IF k \in tkeys THEN FieldValue(m[k]) ELSE FieldValue(dmap[k])],
         topic |-> IF tv.t = "string" THEN tv.s ELSE ""]

(* extractFields, one key at a time, for a given iteration order of the maps *)

\* the orders in which `range` may visit the keys S of a map
Orders(S) ==
    {o \in [1..Cardinality(S) -> S] : \A i, j \in 1..Cardinality(S) : o[i] = o[j] => i = j}

StoreOrClear(fields, k, v) ==
    IF IsScalar(v)
    THEN [x \in DOMAIN fields \cup {k} |-> IF x = k THEN FieldValue(v) ELSE fields[x]]
    ELSE NilMap

\* the type switch of lines 73-83 and 91-100: fields[k] = v for a scalar
Store(fields, k, v) ==
    IF IsScalar(v)
    THEN [x \in DOMAIN fields \cup {k} |-> IF x = k THEN FieldValue(v) ELSE fields[x]]
    ELSE fields

\* for k, v := range mp, visiting the keys in order o from position i on and
\* passing over the keys in skip
RECURSIVE RangeOver(_, _, _, _, _)
RangeOver(fields, mp, o, i, skip) ==
    IF i > Len(o) THEN fields
    ELSE RangeOver(IF o[i] \in skip THEN fields ELSE Store(fields, o[i], mp[o[i]]),
                   mp, o, i + 1, skip)

extractFieldsInOrder(m, dorder, torder) ==
    LET dv == Lookup(m, "data")
        dmap == IF dv.t = "object" THEN dv.members ELSE NilMap
    IN  RangeOver(RangeOver(NilMap, dmap, dorder, 1, {}), m, torder, 1, Reserved)

----------------------------------------------------------------------------
(* The sink's errors: err.Error() as a sequence of words *)

Contains(text, sub) ==
    \E i \in 1..(Len(text) - Len(sub) + 1) : SubSeq(text, i, i + Len(sub) - 1) = sub

NoError == <<>>

SinkErrors ==
    { <<"unprocessable", "entity", "field", "type", "conflict">>,
      <<"partial", "write", "points", "outside", "retention", "policy">>,
      <<"context", "deadline", "exceeded">>,
      <<"retention", "policy", "unavailable", "entity", "too", "large">> }

IsPermanentRetentionOnly(err) == Contains(err, <<"outside", "retention", "policy">>)

IsPermanent(err) ==
    \/ Contains(err, <<"outside", "retention", "policy">>)
    \/ Contains(err, <<"unprocessable", "entity">>)

\* The acknowledgment calls the handler makes once WritePoint has returned
\* err (or the record was printed: NoError), in order, up to its return.
AfterWriteNakThenAck(err) ==
    IF err = NoError THEN <<"Ack">>
    ELSE IF IsPermanent(err) THEN <<"Ack">>
    ELSE <<"Nak", "Ack">>

AfterWriteAckAlways(err) == <<"Ack">>

AfterWrite(err) ==
    IF err = NoError THEN <<"Ack">>
    ELSE IF IsPermanent(err) THEN <<"Ack">>
    ELSE <<"Nak">>

----------------------------------------------------------------------------
(* The handler's pure steps *)

Decode(data) == IF data.ok THEN data.obj ELSE NilMap

ResolveTsZeroOnError(m) ==
    LET a == asInt64(Lookup(Decode(m.data), "ts_ns"))
    IN  IF ~m.data.ok THEN Pos(Zero)
        ELSE IF a.ok /\ IsPositive(a.v) THEN unixAnyToTime(a.v) ELSE m.rcpt

\* ts after the ts_ns override; a JetStream delivery always has metadata, so
\* ts starts as md.Timestamp
ResolveTs(m) ==
    LET a == asInt64(Lookup(Decode(m.data), "ts_ns"))
    IN  IF a.ok /\ IsPositive(a.v) THEN unixAnyToTime(a.v) ELSE m.rcpt

BuildPointKeepsPayloadRaw(m, t) ==
    LET ex == extractFields(Decode(m.data))
        fields == [k \in DOMAIN ex.fields \cup {"raw"} |->
                      IF k \in DOMAIN ex.fields THEN ex.fields[k] ELSE JStr(m.data.raw)]
        tags == IF ex.topic # ""
                THEN "subject" :> m.subject @@ "topic" :> ex.topic
                ELSE "subject" :> m.subject
    IN  [measurement |-> "telemetry", tags |-> tags, fields |-> fields, time |-> t]

BuildPointAlwaysTopic(m, t) ==
    LET ex == extractFields(Decode(m.data))
        fields == [k \in DOMAIN ex.fields \cup {"raw"} |->
                      IF k = "raw" THEN JStr(m.data.raw) ELSE ex.fields[k]]
        tags == "subject" :> m.subject @@ "topic" :> ex.topic
    IN  [measurement |-> "telemetry", tags |-> tags, fields |-> fields, time |-> t]

\* fields, tags and the point of lines 163-175
BuildPoint(m, t) ==
    LET ex == extractFields(Decode(m.data))
        fields == [k \in DOMAIN ex.fields \cup {"raw"} |->
                      IF k = "raw" THEN JStr(m.data.raw) ELSE ex.fields[k]]
        tags == IF ex.topic # ""
                THEN "subject" :> m.subject @@ "topic" :> ex.topic
                ELSE "subject" :> m.subject
    IN  [measurement |-> "telemetry", tags |-> tags, fields |-> fields, time |-> t]

----------------------------------------------------------------------------
(* The stream, the broker's durable consumer and the worker *)

MaxDeliver == 3     \* nats.MaxDeliver(3)
NumMsgs == 1        \* messages in the stream
MaxTick == 1        \* ticks of the worker's clock

VARIABLES
    stream,         \* the messages of the stream, in stream order
    write,          \* "nil" without INFLUX_TOKEN, else "api"
    clock,          \* the worker's latest reading of time.Now(), in ticks
    running,        \* the worker process is alive
    numDelivered,   \* broker: deliveries of each message so far
    consumer,       \* broker: "ready", "ackPending", "acked" or "abandoned"
    inbox,          \* client: deliveries received, not yet handed to the handler
    pc,             \* the handler's position
    msg,            \* the delivery the handler holds: <<m, n>>
    ts,             \* handler local ts
    point,          \* handler local p, the record given to WritePoint
    err,            \* what WritePoint returned
    sigs,           \* the Ack/Nak calls of this invocation, in order
    influx,         \* the sink: points accepted, each with its message
    printed,        \* stdout: records printed with the sink disabled, likewise
    dropped         \* log: messages acked as dropped (bad timestamp, unsalvageable)

vars == <<stream, write, clock, running, numDelivered, consumer, inbox, pc, msg,
          ts, point, err, sigs, influx, printed, dropped>>

Msgs == DOMAIN stream
NoMsg == <<0, 0>>
NoPoint == [measurement |-> "", tags |-> NilMap, fields |-> NilMap, time |-> Pos(Zero)]

(* Payloads *)

Undecodable(raw) == [raw |-> raw, ok |-> FALSE, obj |-> NilMap]
Object(raw, obj) == [raw |-> raw, ok |-> TRUE, obj |-> obj]

PayloadGarbage == Undecodable("{\"ts_ns\": 1793577600")

PayloadA ==
    Object("{\"data\":{\"x\":1.5},\"topic\":\"arm\"}",
           "data" :> JObj("x" :> JReal("1.5", TRUE)) @@ "topic" :> JStr("arm"))

\* md.Timestamp: a second before Now0, or 24 h 30 s after it (a broker whose
\* clock runs a day ahead): outside the window until the worker's clock has
\* moved one tick
RcptFresh == Pos(D(<<1, 793, 577, 599, 0, 0, 0>>))
RcptAhead == Pos(D(<<1, 793, 664, 30, 0, 0, 0>>))

Message(subject, data, rcpt) == [subject |-> subject, data |-> data, rcpt |-> rcpt]

Inputs ==
    { Message("telemetry.arm1", PayloadGarbage, RcptFresh),
      Message("telemetry.arm1", PayloadA, RcptFresh),
      Message("telemetry.imu", PayloadA, RcptAhead) }

\* ts_ns values for the unit heuristic: c * 1000^(p-1) for the c below, the
\* band edges, the window's edges at Now0, and the largest int64
OneLimb(c, p) == Tuple([i \in Limbs |-> IF i = p THEN c ELSE 0])

Multipliers == {d * e : d \in 1..9, e \in {1, 10, 100}}

TimeValues ==
    {v \in {OneLimb(c, p) : c \in Multipliers, p \in 1..7} : Le(v, MaxInt64)}
    \cup { E11, Sub(E11, D(<<1>>)), E14, Sub(E14, D(<<1>>)), E17, Sub(E17, D(<<1>>)),
           D(<<1, 793, 577, 600>>), D(<<1, 793, 577, 600, 0>>),
           D(<<1, 793, 577, 600, 0, 0>>), D(<<1, 793, 577, 600, 0, 0, 0>>),
           D(<<1, 478, 44, 800, 0, 0, 0>>), D(<<1, 478, 44, 799, 999, 999, 999>>),
           D(<<1, 793, 664, 0, 0, 0, 0>>), D(<<1, 793, 664, 0, 0, 0, 1>>),
           MaxInt64 }

\* the payload {"ts_ns": v}; its text stands for itself
TsPayload(v) ==
    Object(<<"{\"ts_ns\": ", v, "}">>,
           "ts_ns" :> [t |-> "number", int |-> TRUE, neg |-> FALSE, mag |-> v])

TimeInputs == {Message("telemetry.arm1", TsPayload(v), RcptFresh) : v \in TimeValues}

TypeOK ==
    /\ write \in {"nil", "api"}
    /\ clock \in 0..MaxTick
    /\ running \in BOOLEAN
    /\ \A m \in Msgs : numDelivered[m] \in 0..MaxDeliver
    /\ \A m \in Msgs : consumer[m] \in {"ready", "ackPending", "acked", "abandoned"}
    /\ pc \in {"idle", "Received", "Dropped", "TimestampChecked", "Writing", "Written",
              "Unsalvageable", "Retry", "Acked"}
    /\ dropped \subseteq Msgs

InitWith(s) ==
    /\ stream = s
    /\ write \in {"nil", "api"}
    /\ clock = 0
    /\ running = TRUE
    /\ numDelivered = [m \in DOMAIN s |-> 0]
    /\ consumer = [m \in DOMAIN s |-> "ready"]
    /\ inbox = <<>>
    /\ pc = "idle"
    /\ msg = NoMsg
    /\ ts = Pos(Zero)
    /\ point = NoPoint
    /\ err = NoError
    /\ sigs = <<>>
    /\ influx = {}
    /\ printed = {}
    /\ dropped = {}

Init == \E s \in [1..NumMsgs -> Inputs] : InitWith(s)

\* one message, its ts_ns drawn from TimeValues or absent
InitTime == \E i \in TimeInputs \cup Inputs : InitWith(<<i>>)

(* Payloads for the decode, override and field rules *)

\* member values: an integer, a real, a number literal outside float64's
\* range, a boolean, strings, null, an array and an object
FieldValues ==
    { JInt(FALSE, <<1>>), JReal("2.5", TRUE), JReal("1e999", FALSE), JBool(TRUE),
      JStr("arm"), JStr(""), JNull, JArr, JObj("x" :> JInt(FALSE, <<1>>)) }

\* ts_ns members: zero, negative, past int64, a valid time in seconds as an
\* integer, as a real and as a string
TsValues ==
    { JInt(FALSE, <<0>>), JInt(TRUE, <<5>>), [JInt(FALSE, <<0>>) EXCEPT !.mag = Two63],
      JInt(FALSE, <<1, 793, 577, 000>>), JReal("1793577000.0", TRUE),
      JStr("1793577000") }

TopKeys == {"x", "raw", "topic", "ts_ns", "trace_id"}
DataKeys == {"x", "raw", "ts_ns"}

\* the top-level members other than data: none, one, or two together
TopParts ==
    {NilMap} \cup {k :> v : k \in TopKeys, v \in FieldValues}
    \cup {"ts_ns" :> v @@ "x" :> JInt(FALSE, <<1>>) : v \in TsValues}
    \cup {"x" :> v @@ "y" :> w : v, w \in {JBool(TRUE), JStr("arm"), JReal("1e999", FALSE)}}

\* the top-level members that occur with every data member
CommonTops ==
    { NilMap, "x" :> JInt(FALSE, <<1>>), "x" :> JStr("arm"), "raw" :> JBool(TRUE),
      "topic" :> JStr("arm"), "trace_id" :> JInt(FALSE, <<1>>),
      "x" :> JReal("1e999", FALSE) }

\* the data member: absent, not an object, or an object of up to two members
DataParts ==
    {Nil, JStr("arm"), JNull, JInt(FALSE, <<1>>), JObj(NilMap), JObj("topic" :> JStr("leg"))}
    \cup {JObj(k :> v) : k \in DataKeys, v \in {JReal("2.5", TRUE), JBool(TRUE), JStr("arm")}}
    \cup {JObj("x" :> v @@ "y" :> w) : v, w \in {JReal("2.5", TRUE), JStr("arm")}}

WithData(top, dv) == IF dv = Nil THEN top ELSE top @@ "data" :> dv

\* a payload stands for its own text
ObjectPayload(obj) == Object(<<"text of", obj>>, obj)

PayloadInputs ==
    {Message("telemetry.arm1", ObjectPayload(WithData(top, dv)), RcptFresh) :
        top \in CommonTops, dv \in DataParts}
    \cup {Message("telemetry.arm1", ObjectPayload(top), RcptFresh) : top \in TopParts}

\* one message, its payload drawn from PayloadInputs or Inputs
InitPayload == \E i \in PayloadInputs \cup Inputs : InitWith(<<i>>)

----------------------------------------------------------------------------
(* The broker's side of the durable consumer "telem-worker" *)

\* MaxDeliver: the broker sends a message at most MaxDeliver times
MayDeliverOnceMore(n) == n <= MaxDeliver

MayDeliver(n) == n < MaxDeliver

UnackedGivesUpEarly(m) ==
    IF MayDeliver(numDelivered[m] + 1) THEN "ready" ELSE "abandoned"

\* what an unacknowledged message becomes on Nak or when AckWait runs out
Unacked(m) == IF MayDeliver(numDelivered[m]) THEN "ready" ELSE "abandoned"

OnSignal(cons, m, sig) ==
    IF sig = "Ack"
    THEN IF cons[m] \in {"ready", "ackPending"} THEN [cons EXCEPT ![m] = "acked"] ELSE cons
    ELSE IF cons[m] = "ackPending" THEN [cons EXCEPT ![m] = Unacked(m)] ELSE cons

RECURSIVE OnSignals(_, _, _)
OnSignals(cons, m, s) ==
    IF s = <<>> THEN cons
    ELSE OnSignals(OnSignal(cons, m, Head(s)), m, Tail(s))

\* The broker sends message m to the subscription: first deliveries go in
\* stream order.
Deliver(m) ==
    /\ running
    /\ consumer[m] = "ready"
    /\ MayDeliver(numDelivered[m])
    /\ numDelivered[m] = 0 => \A k \in Msgs : k < m => numDelivered[k] > 0
    /\ numDelivered' = [numDelivered EXCEPT ![m] = @ + 1]
    /\ consumer' = [consumer EXCEPT ![m] = "ackPending"]
    /\ inbox' = Append(inbox, <<m, numDelivered[m] + 1>>)
    /\ UNCHANGED <<stream, write, clock, running, pc, msg, ts, point, err, sigs,
                   influx, printed, dropped>>

\* nats.AckWait(30 * time.Second) runs out for a delivery of m
AckWaitExpires(m) ==
    /\ consumer[m] = "ackPending"
    /\ consumer' = [consumer EXCEPT ![m] = Unacked(m)]
    /\ UNCHANGED <<stream, write, clock, running, numDelivered, inbox, pc, msg, ts,
                   point, err, sigs, influx, printed, dropped>>

----------------------------------------------------------------------------
(* The handler given to js.Subscribe *)

\* The subscription calls the handler for one message at a time.
HandlerFreeAlways == TRUE

HandlerFree == pc = "idle"

\* msg.Ack() / msg.Nak(): the calls reach the broker in order
Signal(s) ==
    /\ sigs' = sigs \o s
    /\ consumer' = OnSignals(consumer, msg[1], s)

\* lines 137-154: the handler takes the next delivery and resolves ts
Receive ==
    /\ running
    /\ HandlerFree
    /\ inbox # <<>>
    /\ msg' = Head(inbox)
    /\ inbox' = Tail(inbox)
    /\ ts' = ResolveTs(stream[Head(inbox)[1]])
    /\ pc' = "Received"
    /\ UNCHANGED <<stream, write, clock, running, numDelivered, consumer, point, err,
                   sigs, influx, printed, dropped>>

\* lines 156-161: now := time.Now(), no earlier than the reading before, and
\* the window check with the Ack of a bad timestamp
CheckTimestamp ==
    /\ running
    /\ pc = "Received"
    /\ \E k \in clock..MaxTick :
        /\ clock' = k
        /\ IF BadTimestamp(ts, TimeNow(k))
           THEN /\ Signal(<<"Ack">>)
                /\ dropped' = dropped \cup {msg[1]}
                /\ pc' = "Dropped"
           ELSE /\ pc' = "TimestampChecked"
                /\ UNCHANGED <<consumer, sigs, dropped>>
    /\ UNCHANGED <<stream, write, running, numDelivered, inbox, msg, ts, point, err,
                   influx, printed>>

\* line 174: write != nil
SinkEnabledAlways == TRUE

SinkEnabled == write # "nil"

WritePointAckFirst ==
    /\ running
    /\ pc = "TimestampChecked"
    /\ IF SinkEnabled
       THEN /\ point' = BuildPoint(stream[msg[1]], ts)
            /\ Signal(<<"Ack">>)
            /\ pc' = "Writing"
            /\ UNCHANGED printed
       ELSE /\ printed' = printed \cup {<<msg[1], [subject |-> stream[msg[1]].subject,
                                                   ts |-> ts,
                                                   raw |-> stream[msg[1]].data.raw]>>}
            /\ pc' = "Written"
            /\ UNCHANGED <<point, consumer, sigs>>
    /\ UNCHANGED <<stream, write, clock, running, numDelivered, inbox, msg,
                   ts, err, influx, dropped>>

\* lines 163-176 and 190: build the record, call WritePoint or print
WritePoint ==
    /\ running
    /\ pc = "TimestampChecked"
    /\ IF SinkEnabled
       THEN /\ point' = BuildPoint(stream[msg[1]], ts)
            /\ pc' = "Writing"
            /\ UNCHANGED printed
       ELSE /\ printed' = printed \cup {<<msg[1], [subject |-> stream[msg[1]].subject,
                                                   ts |-> ts,
                                                   raw |-> stream[msg[1]].data.raw]>>}
            /\ pc' = "Written"
            /\ UNCHANGED point
    /\ UNCHANGED <<stream, write, clock, running, numDelivered, consumer, inbox, msg,
                   ts, err, sigs, influx, dropped>>

\* WritePoint returns: nil once the sink has stored the point, else an error
WriteReturns(e) ==
    /\ running
    /\ pc = "Writing"
    /\ err' = e
    /\ influx' = IF e = NoError THEN influx \cup {<<msg[1], point>>} ELSE influx
    /\ pc' = "Written"
    /\ UNCHANGED <<stream, write, clock, running, numDelivered, consumer, inbox, msg,
                   ts, point, sigs, printed, dropped>>

\* lines 176-193: the acknowledgment after the write
Acknowledge ==
    /\ running
    /\ pc = "Written"
    /\ Signal(AfterWrite(err))
    /\ dropped' = IF err # NoError /\ IsPermanent(err) THEN dropped \cup {msg[1]} ELSE dropped
    /\ pc' = IF err = NoError THEN "Acked"
             ELSE IF IsPermanent(err) THEN "Unsalvageable" ELSE "Retry"
    /\ UNCHANGED <<stream, write, clock, running, numDelivered, inbox, msg, ts, point,
                   err, influx, printed>>

\* the return at line 160, 182, 187 or 194
Return ==
    /\ running
    /\ pc \in {"Dropped", "Unsalvageable", "Retry", "Acked"}
    /\ pc' = "idle"
    /\ msg' = NoMsg
    /\ ts' = Pos(Zero)
    /\ point' = NoPoint
    /\ err' = NoError
    /\ sigs' = <<>>
    /\ UNCHANGED <<stream, write, clock, running, numDelivered, consumer, inbox,
                   influx, printed, dropped>>

----------------------------------------------------------------------------
(* The process *)

\* main blocks in select {} and installs no signal handler: the process ends
\* only when it is killed, at any point, and no deferred Drain runs.  What
\* the client had buffered goes with it.
Terminate ==
    /\ running
    /\ running' = FALSE
    /\ inbox' = <<>>
    /\ UNCHANGED <<stream, write, clock, numDelivered, consumer, pc, msg, ts, point,
                   err, sigs, influx, printed, dropped>>

Next ==
    \/ \E m \in Msgs : Deliver(m)
    \/ \E m \in Msgs : AckWaitExpires(m)
    \/ Receive
    \/ CheckTimestamp
    \/ WritePoint
    \/ \E e \in SinkErrors \cup {NoError} : WriteReturns(e)
    \/ Acknowledge
    \/ Return
    \/ Terminate

Spec == Init /\ [][Next]_vars

SpecTime == InitTime /\ [][Next]_vars

SpecPayload == InitPayload /\ [][Next]_vars

----------------------------------------------------------------------------
(* Properties *)

\* the handler stands at one of its return statements
AtReturn == pc \in {"Dropped", "Unsalvageable", "Retry", "Acked"}

\* the validity window [now - 10 years, now + 24 hours] at clock reading k
SLe(a, b) == a = b \/ SLt(a, b)
InWindow(t, k) == SLe(SSub(TimeNow(k), TenYears), t) /\ SLe(t, SAdd(TimeNow(k), Day))

\* the sink error classes, by the text of the error
PermanentText(e) ==
    e # NoError /\ (Contains(e, <<"outside", "retention", "policy">>)
                    \/ Contains(e, <<"unprocessable", "entity">>))
TransientText(e) == e # NoError /\ ~PermanentText(e)

Accepted(m) == (\E x \in influx : x[1] = m) \/ (\E x \in printed : x[1] = m)

\* C1: on every path the handler has issued exactly one Ack or Nak when it
\* returns, and none before it reaches a return statement: never zero at the
\* return, never two.
C1_ExactlyOneSignal ==
    /\ AtReturn => Len(sigs) = 1
    /\ ~AtReturn => sigs = <<>>

\* an undecodable payload whose write failed transiently, at its return
C1_Witness == pc = "Retry" /\ ~stream[msg[1]].data.ok /\ sigs = <<"Nak">>

\* C3: after a sink error that has neither "outside retention policy" nor
\* "unprocessable entity" in its text the handler issues Nak and never Ack,
\* at any delivery count; an Ack is issued only for a bad timestamp, a
\* disabled sink, an accepted point or a permanent sink error.
C3_TransientIsNak ==
    /\ TransientText(err) /\ AtReturn => sigs = <<"Nak">>
    /\ TransientText(err) => \A i \in 1..Len(sigs) : sigs[i] # "Ack"
    /\ (\E i \in 1..Len(sigs) : sigs[i] = "Ack") =>
          \/ ~InWindow(ts, clock)
          \/ write = "nil"
          \/ err = NoError /\ <<msg[1], point>> \in influx
          \/ PermanentText(err)

\* the last permitted delivery fails transiently and is negatively acknowledged
C3_Witness == msg[2] = MaxDeliver /\ TransientText(err) /\ sigs = <<"Nak">>

\* a delivery of m is with the worker: buffered, or in the handler
InFlight(m) ==
    running /\ (msg[1] = m \/ \E i \in 1..Len(inbox) : inbox[i][1] = m)

Settled(m) == Accepted(m) \/ m \in dropped

\* C2 as stated: while the worker runs, a message that is neither accepted nor
\* dropped is still due for redelivery or with the worker.
C2_NeverLost ==
    running => \A m \in Msgs :
        Settled(m) \/ consumer[m] \in {"ready", "ackPending"} \/ InFlight(m)

\* C2, amended: a message is acknowledged to the broker only once the sink has
\* accepted it or the worker has dropped it, and a message that is neither
\* stays due for redelivery or with the worker until the broker has delivered
\* it MaxDeliver times without an Ack; only then is it abandoned, unsettled.
C2_LostOnlyAfterMaxDeliver ==
    \A m \in Msgs :
        \/ Settled(m)
        \/ consumer[m] \in {"ready", "ackPending"}
        \/ InFlight(m)
        \/ consumer[m] = "abandoned" /\ numDelivered[m] = MaxDeliver

\* the broker has given a message up that was never accepted nor dropped
C2_Witness ==
    /\ running
    /\ pc = "idle"
    /\ \E m \in Msgs : consumer[m] = "abandoned" /\ ~Settled(m) /\ ~InFlight(m)

\* C4: a resolved timestamp before now - 10 years or after now + 24 hours is
\* acknowledged with Ack, no record is built and no write attempted; every
\* record given to the sink lies in the closed window at processing time.
C4_BadTimestampDropped ==
    /\ pc \notin {"idle", "Received"} /\ ~InWindow(ts, clock) =>
          pc = "Dropped" /\ sigs = <<"Ack">> /\ point = NoPoint /\ err = NoError
    /\ pc = "Dropped" => msg[1] \in dropped /\ consumer[msg[1]] # "ready"
    /\ point # NoPoint => InWindow(point.time, clock)

\* a timestamp after now + 24 hours is dropped
C4_Witness ==
    pc = "Dropped" /\ SLt(SAdd(TimeNow(clock), Day), ts) /\ sigs = <<"Ack">>

\* the positive int64 override of message m, if its payload has one
HasOverride(m) ==
    LET v == Lookup(Decode(stream[m].data), "ts_ns")
    IN  v.t = "number" /\ v.int /\ ~v.neg /\ v.mag # Zero /\ Le(v.mag, MaxInt64)
OverrideOf(m) == stream[m].data.obj["ts_ns"].mag

\* the absolute time V denotes in its magnitude band, in exact arithmetic
Denoted(v) ==
    IF Le(E17, v) THEN Pos(v)
    ELSE IF Le(E14, v) THEN Pos(Shl(v, 1))
    ELSE IF Le(E11, v) THEN Pos(Shl(v, 2))
    ELSE Pos(Shl(v, 3))

\* C5: no positive override whose denoted time lies outside the window is
\* ever given to the sink.
C5_NoOutOfWindowOverrideWritten ==
    pc = "Writing" /\ HasOverride(msg[1]) => InWindow(Denoted(OverrideOf(msg[1])), clock)

\* C6: a sink error with "outside retention policy" or "unprocessable entity"
\* in its text is acknowledged with Ack, and the broker delivers no message
\* again that the worker has dropped.
C6_PermanentIsAcked ==
    /\ [](PermanentText(err) /\ AtReturn =>
             /\ sigs = <<"Ack">>
             /\ msg[1] \in dropped
             /\ consumer[msg[1]] \in {"acked", "abandoned"})
    /\ [][\A m \in dropped : numDelivered'[m] = numDelivered[m]]_vars

\* an "unprocessable entity" error, acknowledged
C6_Witness ==
    /\ pc = "Unsalvageable"
    /\ Contains(err, <<"unprocessable", "entity">>)
    /\ sigs = <<"Ack">>
    /\ consumer[msg[1]] = "acked"

\* C7: a message is delivered at most 3 times in total, whatever ends its
\* deliveries (Nak or AckWait), and the broker abandons it only after the
\* third.
C7_AtMostThreeDeliveries ==
    /\ \A m \in Msgs : numDelivered[m] <= 3
    /\ \A m \in Msgs : consumer[m] = "abandoned" => numDelivered[m] = 3
    /\ msg[2] <= 3
    /\ \A i \in 1..Len(inbox) : inbox[i][2] <= numDelivered[inbox[i][1]]

\* the third delivery fails transiently like the ones before: the message is
\* abandoned
C7_Witness ==
    /\ pc = "Retry"
    /\ msg[2] = 3
    /\ consumer[msg[1]] = "abandoned"
    /\ ~Settled(msg[1])

\* C8: the process never ends while a message is between the sink write and
\* its Ack or Nak.
C8_NoExitMidPipeline == ~running => pc \notin {"Writing", "Written"}

C10_BandResolution ==
    msg # NoMsg /\ HasOverride(msg[1]) => ts = Denoted(OverrideOf(msg[1]))

\* the payload of m has a ts_ns member that is an integer and strictly positive
PositiveIntegerTsNs(m) ==
    LET d == stream[m].data
    IN  /\ d.ok
        /\ "ts_ns" \in DOMAIN d.obj
        /\ d.obj["ts_ns"].t = "number"
        /\ d.obj["ts_ns"].int
        /\ ~d.obj["ts_ns"].neg
        /\ d.obj["ts_ns"].mag # Zero

\* C11: unless the payload has a ts_ns member that is an integer and
\* strictly positive, the timestamp of the delivery, of the record given to
\* the sink and of the record printed is the broker's receipt time.
C11_OverrideOnlyPositiveInteger ==
    msg # NoMsg /\ ~PositiveIntegerTsNs(msg[1]) =>
        /\ ts = stream[msg[1]].rcpt
        /\ point # NoPoint => point.time = stream[msg[1]].rcpt
        /\ \A x \in printed : x[1] = msg[1] => x[2].ts = stream[msg[1]].rcpt

\* a payload with "ts_ns": 0 is being written with the receipt time
C11_Witness ==
    /\ pc = "Writing"
    /\ Lookup(stream[msg[1]].data.obj, "ts_ns") = JInt(FALSE, <<0>>)
    /\ point.time = stream[msg[1]].rcpt

\* C12: without a sink credential no sink write is attempted, Nak is never
\* issued, and a delivery whose timestamp is inside the window is printed
\* and then acknowledged with Ack.
C12_DisabledModeAcks ==
    write = "nil" =>
        /\ pc # "Writing" /\ point = NoPoint /\ err = NoError /\ influx = {}
        /\ \A i \in 1..Len(sigs) : sigs[i] # "Nak"
        /\ pc \notin {"idle", "Received"} =>
              pc \in {"TimestampChecked", "Written", "Acked"} \/ ~InWindow(ts, clock)
        /\ sigs # <<>> =>
              \/ /\ sigs = <<"Ack">>
                 /\ consumer[msg[1]] \in {"acked", "abandoned"}
                 /\ <<msg[1], [subject |-> stream[msg[1]].subject, ts |-> ts,
                               raw |-> stream[msg[1]].data.raw]>> \in printed
              \/ ~InWindow(ts, clock)

\* an undecodable payload printed and acknowledged with the sink disabled
C12_Witness ==
    /\ write = "nil"
    /\ pc = "Acked"
    /\ ~stream[msg[1]].data.ok
    /\ sigs = <<"Ack">>
    /\ \E x \in printed : x[1] = msg[1]

\* the handler holds a delivery of the payload {"ts_ns": 99999999999999999}
HoldsScenarioC ==
    /\ msg # NoMsg
    /\ stream[msg[1]].data.ok
    /\ Lookup(stream[msg[1]].data.obj, "ts_ns") = JInt(FALSE, <<99, 999, 999, 999, 999, 999>>)

C14_AckAfterWrite ==
    /\ [](write = "api" /\ pc \notin {"idle", "Received"} =>
            \/ /\ pc \in {"TimestampChecked", "Writing", "Written"} => sigs = <<>>
               /\ sigs # <<>> => point # NoPoint /\ pc \in {"Acked", "Unsalvageable", "Retry"}
               /\ (\E i \in 1..Len(sigs) : sigs[i] = "Ack") =>
                     \/ err = NoError /\ <<msg[1], point>> \in influx
                     \/ PermanentText(err)
            \/ ~InWindow(ts, clock))
    /\ [][pc' = "Writing" /\ pc # "Writing" =>
            pc = "TimestampChecked" /\ point = NoPoint /\ msg' = msg]_vars
    /\ [][point' # point /\ point' # NoPoint => pc' = "Writing"]_vars

\* the write has returned without error and the Ack has followed it
C14_Witness ==
    /\ write = "api"
    /\ pc = "Acked"
    /\ sigs = <<"Ack">>
    /\ <<msg[1], point>> \in influx

\* C15: a delivery whose payload is not a JSON object keeps the receipt time
\* and, when that is inside the window, is not dropped: the record given to
\* the sink has the subject tag only and the single field raw, the payload
\* text, and the signal after the write follows the sink's answer as for any
\* other message.
C15_UndecodableStillWritten ==
    msg # NoMsg /\ ~stream[msg[1]].data.ok =>
        /\ ts = stream[msg[1]].rcpt
        /\ pc \notin {"idle", "Received"} =>
              \/ /\ pc # "Dropped"
                 /\ write = "api" /\ pc # "TimestampChecked" => point # NoPoint
              \/ ~InWindow(stream[msg[1]].rcpt, clock)
        /\ point # NoPoint =>
              point = [measurement |-> "telemetry",
                       tags |-> "subject" :> stream[msg[1]].subject,
                       fields |-> "raw" :> JStr(stream[msg[1]].data.raw),
                       time |-> stream[msg[1]].rcpt]
        /\ pc = "Acked" => sigs = <<"Ack">> /\ err = NoError
        /\ pc = "Unsalvageable" => sigs = <<"Ack">> /\ PermanentText(err)
        /\ pc = "Retry" => sigs = <<"Nak">> /\ TransientText(err)
        /\ pc = "Acked" /\ write = "api" => <<msg[1], point>> \in influx

\* the record of an undecodable payload is with the sink
C15_Witness ==
    /\ pc = "Writing"
    /\ ~stream[msg[1]].data.ok
    /\ DOMAIN point.fields = {"raw"}

\* the decoded payload of m (no members when it is absent) and the members
\* of its data mapping (none when data is absent or not a mapping)
PayloadOf(m) == IF stream[m].data.ok THEN stream[m].data.obj ELSE NilMap
DataOf(m) ==
    IF "data" \in DOMAIN PayloadOf(m) /\ PayloadOf(m)["data"].t = "object"
    THEN PayloadOf(m)["data"].members
    ELSE NilMap

NumericOrBool(v) == v.t \in {"number", "bool"}
\* a boolean, or a number whose literal is within float64's range
StorableScalar(v) == v.t = "bool" \/ (v.t = "number" /\ (v.int \/ v.finite))

\* the names extractFields is to return for m, given which values qualify
QualifyingKeys(m, Q(_)) ==
    {k \in DOMAIN DataOf(m) : Q(DataOf(m)[k])}
    \cup {k \in DOMAIN PayloadOf(m) \ {"data", "topic", "trace_id", "ts_ns"} :
            Q(PayloadOf(m)[k])}

\* the field under name k is the value of a qualifying member named k
FromMember(m, k, f) ==
    \/ k \in DOMAIN DataOf(m) /\ f = FieldValue(DataOf(m)[k])
    \/ k \in DOMAIN PayloadOf(m) /\ f = FieldValue(PayloadOf(m)[k])

\* C16 as stated: extractFields returns exactly the data members and the
\* top-level members, other than data, topic, trace_id and ts_ns, whose
\* values are numeric or boolean.
C16_ExactlyNumericOrBool ==
    pc = "TimestampChecked" =>
        DOMAIN extractFields(Decode(stream[msg[1]].data)).fields
            = QualifyingKeys(msg[1], NumericOrBool)

\* C16: extractFields returns exactly the data members and the top-level
\* members, other than data, topic, trace_id and ts_ns, whose values are
\* boolean or numbers within float64's range, under their own names; a
\* number literal outside that range is skipped like a string, an array, an
\* object or null; the result is the empty mapping when nothing qualifies,
\* also for an absent payload.  The record given to the sink has these
\* fields besides raw.
C16_ExactlyStorableScalars ==
    pc \in {"TimestampChecked", "Writing"} =>
        LET m == msg[1]
            r == extractFields(Decode(stream[m].data)).fields
        IN  /\ DOMAIN r = QualifyingKeys(m, StorableScalar)
            /\ \A k \in DOMAIN r : FromMember(m, k, r[k])
            /\ ~stream[m].data.ok => r = NilMap
            /\ pc = "Writing" =>
                  /\ DOMAIN point.fields = DOMAIN r \cup {"raw"}
                  /\ \A k \in DOMAIN r \ {"raw"} : point.fields[k] = r[k]

\* a record is with the sink whose payload has a numeric trace_id and a
\* boolean inside data: only the latter is a field
C16_Witness ==
    /\ pc = "Writing"
    /\ "trace_id" \in DOMAIN PayloadOf(msg[1])
    /\ PayloadOf(msg[1])["trace_id"].t = "number"
    /\ \E k \in DOMAIN DataOf(msg[1]) : DataOf(msg[1])[k].t = "bool"
    /\ DOMAIN point.fields = DOMAIN DataOf(msg[1]) \cup {"raw"}

\* name k occurs at top level (outside the reserved keys) and inside data,
\* each time with a value that satisfies Q
InBoth(m, k, Q(_)) ==
    /\ k \in DOMAIN PayloadOf(m) \ {"data", "topic", "trace_id", "ts_ns"}
    /\ k \in DOMAIN DataOf(m)
    /\ Q(PayloadOf(m)[k])
    /\ Q(DataOf(m)[k])

C18_RawAlwaysPresent ==
    /\ pc = "Writing" =>
          /\ "raw" \in DOMAIN point.fields
          /\ point.fields["raw"] = JStr(stream[msg[1]].data.raw)
          /\ ("data" \notin DOMAIN PayloadOf(msg[1])
              /\ \A k \in DOMAIN PayloadOf(msg[1]) : ~NumericOrBool(PayloadOf(msg[1])[k]))
                => DOMAIN point.fields = {"raw"}
    /\ \A x \in influx :
          "raw" \in DOMAIN x[2].fields /\ x[2].fields["raw"] = JStr(stream[x[1]].data.raw)

\* the payload has a boolean raw at top level or inside data, and the record
\* with the sink has the payload text as raw
C18_Witness ==
    /\ pc = "Writing"
    /\ \/ Lookup(PayloadOf(msg[1]), "raw") = JBool(TRUE)
       \/ Lookup(DataOf(msg[1]), "raw") = JBool(TRUE)
    /\ point.fields["raw"] = JStr(stream[msg[1]].data.raw)

\* the payload of m has a top-level topic member that is a non-empty string
HasTopic(m) ==
    /\ "topic" \in DOMAIN PayloadOf(m)
    /\ PayloadOf(m)["topic"].t = "string"
    /\ PayloadOf(m)["topic"].s # ""

\* C19: the tags of every record given to the sink are subject, the subject
\* of the delivered message, and topic exactly when the payload has a
\* non-empty string topic member, then with that string; there is no other
\* tag.
C19_Tags ==
    pc = "Writing" =>
        /\ "subject" \in DOMAIN point.tags
        /\ point.tags["subject"] = stream[msg[1]].subject
        /\ DOMAIN point.tags \subseteq {"subject", "topic"}
        /\ "topic" \in DOMAIN point.tags <=> HasTopic(msg[1])
        /\ HasTopic(msg[1]) => point.tags["topic"] = PayloadOf(msg[1])["topic"].s

\* a payload whose topic is the empty string, or a topic only inside data:
\* the record with the sink has the subject tag alone
C19_Witness ==
    /\ pc = "Writing"
    /\ \/ Lookup(PayloadOf(msg[1]), "topic") = JStr("")
       \/ "topic" \in DOMAIN DataOf(msg[1])
    /\ DOMAIN point.tags = {"subject"}

\* C20: whatever the order in which the keys of the payload and the keys of
\* its data mapping are visited, extractFields builds one and the same
\* field set.
C20_OrderIndependent ==
    pc = "TimestampChecked" =>
        LET m == Decode(stream[msg[1]].data)
        IN  \A d1, d2 \in Orders(DOMAIN DataOf(msg[1])) :
            \A t1, t2 \in Orders(DOMAIN m) :
                /\ extractFieldsInOrder(m, d1, t1) = extractFieldsInOrder(m, d2, t2)
                /\ extractFieldsInOrder(m, d1, t1) = extractFields(m).fields

\* the handler is about to extract the fields of a payload whose data has
\* two members, only one of them a number
C20_Witness ==
    /\ pc = "TimestampChecked"
    /\ DOMAIN DataOf(msg[1]) = {"x", "y"}
    /\ DataOf(msg[1])["x"].t = "number"
    /\ DataOf(msg[1])["y"].t = "string"
    /\ DOMAIN extractFields(Decode(stream[msg[1]].data)).fields = {"x"}

====
